---- MODULE Spec2Model ----
(***************************************************************************)
(* Model of the aadhaar-darpan ETL pipeline                                *)
(* (src/src/etl_pipeline/ingest_data.py) and of the snapshot reader of the *)
(* query API (src/src/api/app.py).                                          *)
(*                                                                         *)
(* Text is modelled by TLA+ strings over the ASCII subset                  *)
(*   A-Z a-z 0-9 space & and punctuation,                                  *)
(* a CSV cell by a record [isStr, text] (isStr = FALSE is the float NaN    *)
(* pandas.read_csv yields for an empty cell), a pandas float by a record   *)
(* [k, n, d] (k = "fin": the rational n/d in lowest terms, "inf": signed   *)
(* infinity, "nan": NaN), a DataFrame by the sequence of its rows and a    *)
(* grouped / merged frame by the set of its rows (one per group key).      *)
(***************************************************************************)
EXTENDS Integers, Sequences, FiniteSets, TLC

VARIABLES pc, enrolFiles, demoFiles, bioFiles, df_enrol, df_demo, df_bio,
          en_final, de_final, bio_final, final_df, disk, view, probe

vars == <<pc, enrolFiles, demoFiles, bioFiles, df_enrol, df_demo, df_bio,
          en_final, de_final, bio_final, final_df, disk, view, probe>>

(***************************************************************************)
(* Configuration tables (ingest_data.py lines 13-41)                       *)
(***************************************************************************)
OFFICIAL_ENTITIES ==
    << "ANDAMAN AND NICOBAR ISLANDS", "ANDHRA PRADESH", "ARUNACHAL PRADESH",
       "ASSAM", "BIHAR", "CHANDIGARH", "CHHATTISGARH",
       "DADRA AND NAGAR HAVELI AND DAMAN AND DIU", "DELHI", "GOA", "GUJARAT",
       "HARYANA", "HIMACHAL PRADESH", "JAMMU AND KASHMIR", "JHARKHAND",
       "KARNATAKA", "KERALA", "LADAKH", "LAKSHADWEEP", "MADHYA PRADESH",
       "MAHARASHTRA", "MANIPUR", "MEGHALAYA", "MIZORAM", "NAGALAND", "ODISHA",
       "PUDUCHERRY", "PUNJAB", "RAJASTHAN", "SIKKIM", "TAMIL NADU",
       "TELANGANA", "TRIPURA", "UTTAR PRADESH", "UTTARAKHAND", "WEST BENGAL" >>

OfficialSet == { OFFICIAL_ENTITIES[i] : i \in DOMAIN OFFICIAL_ENTITIES }

\* Mutant of PERMUTATION_MAP: one alias pair entered the wrong way round.
PERMUTATION_MAP_reversed ==
    ( "ANDAMAN NICOBAR" :> "ANDAMAN AND NICOBAR ISLANDS" ) @@
    ( "ANDAMAN & NICOBAR" :> "ANDAMAN AND NICOBAR ISLANDS" ) @@
    ( "ANDAAMAN NICOBAR" :> "ANDAMAN AND NICOBAR ISLANDS" ) @@
    ( "ANDAMAN NICOBAR ISLANDS" :> "ANDAMAN AND NICOBAR ISLANDS" ) @@
    ( "THE DADRA AND NAGAR HAVELI AND DAMAN AND DIU"
          :> "DADRA AND NAGAR HAVELI AND DAMAN AND DIU" ) @@
    ( "DADRA NAGAR HAVELI" :> "DADRA AND NAGAR HAVELI AND DAMAN AND DIU" ) @@
    ( "DAMAN AND DIU" :> "DADRA AND NAGAR HAVELI AND DAMAN AND DIU" ) @@
    ( "ODISHA" :> "ORISSA" ) @@
    ( "PONDICHERRY" :> "PUDUCHERRY" ) @@
    ( "UTTARANCHAL" :> "UTTARAKHAND" ) @@
    ( "CHHATISGARH" :> "CHHATTISGARH" ) @@
    ( "WESTBENGAL" :> "WEST BENGAL" ) @@
    ( "WEST BANGAL" :> "WEST BENGAL" ) @@
    ( "WEST BENGLI" :> "WEST BENGAL" ) @@
    ( "JAMMU KASHMIR" :> "JAMMU AND KASHMIR" )

PERMUTATION_MAP ==
    ( "ANDAMAN NICOBAR" :> "ANDAMAN AND NICOBAR ISLANDS" ) @@
    ( "ANDAMAN & NICOBAR" :> "ANDAMAN AND NICOBAR ISLANDS" ) @@
    ( "ANDAAMAN NICOBAR" :> "ANDAMAN AND NICOBAR ISLANDS" ) @@
    ( "ANDAMAN NICOBAR ISLANDS" :> "ANDAMAN AND NICOBAR ISLANDS" ) @@
    ( "THE DADRA AND NAGAR HAVELI AND DAMAN AND DIU"
          :> "DADRA AND NAGAR HAVELI AND DAMAN AND DIU" ) @@
    ( "DADRA NAGAR HAVELI" :> "DADRA AND NAGAR HAVELI AND DAMAN AND DIU" ) @@
    ( "DAMAN AND DIU" :> "DADRA AND NAGAR HAVELI AND DAMAN AND DIU" ) @@
    ( "ORISSA" :> "ODISHA" ) @@
    ( "PONDICHERRY" :> "PUDUCHERRY" ) @@
    ( "UTTARANCHAL" :> "UTTARAKHAND" ) @@
    ( "CHHATISGARH" :> "CHHATTISGARH" ) @@
    ( "WESTBENGAL" :> "WEST BENGAL" ) @@
    ( "WEST BANGAL" :> "WEST BENGAL" ) @@
    ( "WEST BENGLI" :> "WEST BENGAL" ) @@
    ( "JAMMU KASHMIR" :> "JAMMU AND KASHMIR" )

TELANGANA_DISTRICTS ==
    { "ADILABAD", "HYDERABAD", "KARIMNAGAR", "KHAMMAM", "MAHABUBNAGAR",
      "MEDAK", "NALGONDA", "NIZAMABAD", "RANGAREDDI", "WARANGAL" }

\* The sentinel canonicalize returns for a rejected cell (line 45).
REMOVE_ME == "REMOVE_ME"

(***************************************************************************)
(* CSV cells                                                               *)
(***************************************************************************)
Str(t) == [isStr |-> TRUE, text |-> t]
NaNCell == [isStr |-> FALSE, text |-> ""]

(***************************************************************************)
(* Python string operations used by canonicalize (lines 44-48)             *)
(***************************************************************************)
LowerLetters == "abcdefghijklmnopqrstuvwxyz"
UpperLetters == "ABCDEFGHIJKLMNOPQRSTUVWXYZ"
Digits == "0123456789"

CharAt(s, i) == SubSeq(s, i, i)

\* c in s, for a one-character c
CharIn(c, s) == \E i \in 1..Len(s) : CharAt(s, i) = c

\* any(char.isdigit() for char in name)
HasDigit(s) == \E i \in 1..Len(s) : CharIn(CharAt(s, i), Digits)

\* the letters that str.upper() changes, each with its upper-case letter
ToUpper ==
    [c \in { CharAt(LowerLetters, i) : i \in 1..Len(LowerLetters) } |->
        CharAt(UpperLetters, CHOOSE i \in 1..Len(LowerLetters) : CharAt(LowerLetters, i) = c)]

ToLower ==
    [c \in { CharAt(UpperLetters, i) : i \in 1..Len(UpperLetters) } |->
        CharAt(LowerLetters, CHOOSE i \in 1..Len(UpperLetters) : CharAt(UpperLetters, i) = c)]

UpperChar(c) == IF c \in DOMAIN ToUpper THEN ToUpper[c] ELSE c

LowerChar(c) == IF c \in DOMAIN ToLower THEN ToLower[c] ELSE c

RECURSIVE MapUpper(_)
\* str.upper()
MapUpper(s) ==
    IF s = "" THEN "" ELSE UpperChar(CharAt(s, 1)) \o MapUpper(SubSeq(s, 2, Len(s)))

RECURSIVE MapLower(_)
\* str.lower(), used only to build probe inputs
MapLower(s) ==
    IF s = "" THEN "" ELSE LowerChar(CharAt(s, 1)) \o MapLower(SubSeq(s, 2, Len(s)))

RECURSIVE LStrip(_)
LStrip(s) ==
    IF s # "" /\ CharAt(s, 1) = " " THEN LStrip(SubSeq(s, 2, Len(s))) ELSE s

RECURSIVE RStrip(_)
RStrip(s) ==
    IF s # "" /\ CharAt(s, Len(s)) = " " THEN RStrip(SubSeq(s, 1, Len(s) - 1)) ELSE s

\* str.strip()
Strip(s) == RStrip(LStrip(s))

RECURSIVE ReplaceAmp(_)
\* str.replace("&", "AND")
ReplaceAmp(s) ==
    IF s = "" THEN ""
    ELSE (IF CharAt(s, 1) = "&" THEN "AND" ELSE CharAt(s, 1))
             \o ReplaceAmp(SubSeq(s, 2, Len(s)))

RECURSIVE SubNonLetters(_)
\* re.sub(r'[^A-Z\s]', '', s)
SubNonLetters(s) ==
    IF s = "" THEN ""
    ELSE (IF CharIn(CharAt(s, 1), UpperLetters) \/ CharAt(s, 1) = " "
          THEN CharAt(s, 1) ELSE "")
             \o SubNonLetters(SubSeq(s, 2, Len(s)))

RECURSIVE CollapseSpaces(_)
\* the inner runs of " ".join(s.split()): every run of spaces becomes one
CollapseSpaces(s) ==
    IF Len(s) < 2 THEN s
    ELSE IF CharAt(s, 1) = " " /\ CharAt(s, 2) = " "
         THEN CollapseSpaces(SubSeq(s, 2, Len(s)))
         ELSE CharAt(s, 1) \o CollapseSpaces(SubSeq(s, 2, Len(s)))

\* " ".join(s.split())
JoinSplit(s) == CollapseSpaces(Strip(s))

\* a in b (Python substring test; "" is in every string)
Contains(a, b) ==
    \E i \in 0..(Len(b) - Len(a)) : SubSeq(b, i + 1, i + Len(a)) = a

\* lines 46-48
Clean(t) == JoinSplit(SubNonLetters(ReplaceAmp(Strip(MapUpper(t)))))

RECURSIVE FirstContainmentFrom(_, _)
\* lines 51-52: the index of the first official name, from index i on in list
\* order, that contains s or is contained in s; 0 when there is none
FirstContainmentFrom(s, i) ==
    IF i > Len(OFFICIAL_ENTITIES) THEN 0
    ELSE IF Contains(OFFICIAL_ENTITIES[i], s) \/ Contains(s, OFFICIAL_ENTITIES[i])
         THEN i
         ELSE FirstContainmentFrom(s, i + 1)

\* lines 43-53
canonicalize(name, is_state) ==
    IF ~name.isStr \/ HasDigit(name.text) THEN REMOVE_ME
    ELSE LET s == Clean(name.text)
         IN  IF is_state
             THEN IF s \in DOMAIN PERMUTATION_MAP THEN PERMUTATION_MAP[s]
                  ELSE LET hit == FirstContainmentFrom(s, 1)
                       IN  IF hit # 0 THEN OFFICIAL_ENTITIES[hit] ELSE s
             ELSE s

(***************************************************************************)
(* pandas floats: exact rationals, signed infinity and NaN                 *)
(***************************************************************************)
Abs(x) == IF x < 0 THEN -x ELSE x

RECURSIVE GCD(_, _)
GCD(a, b) == IF b = 0 THEN a ELSE GCD(b, a % b)

\* the float n/d (d # 0), in lowest terms with a positive denominator
Fin(n, d) ==
    LET g == GCD(Abs(n), Abs(d))
        sgn == IF d < 0 THEN -1 ELSE 1
    IN  [k |-> "fin", n |-> (sgn * n) \div g, d |-> Abs(d) \div g]

NaN == [k |-> "nan", n |-> 0, d |-> 1]
Inf(sign) == [k |-> "inf", n |-> sign, d |-> 1]

\* a + b on finite floats
FAdd(a, b) == Fin(a.n * b.d + b.n * a.d, a.d * b.d)

\* a / b on finite floats, as numpy divides: x/0 is +-inf, 0/0 is NaN, no raise
FDiv(a, b) ==
    IF b.n = 0
    THEN IF a.n = 0 THEN NaN ELSE Inf(IF a.n > 0 THEN 1 ELSE -1)
    ELSE Fin(a.n * b.d, a.d * b.n)

\* a < b; every comparison with NaN is false
FLess(a, b) ==
    CASE a.k = "nan" \/ b.k = "nan" -> FALSE
      [] a.k = "inf" /\ b.k = "inf" -> a.n < b.n
      [] a.k = "inf" -> a.n < 0
      [] b.k = "inf" -> b.n > 0
      [] OTHER -> a.n * b.d < b.n * a.d

FLeq(a, b) == a.k # "nan" /\ b.k # "nan" /\ ~FLess(b, a)

\* Series.clip(lo, hi): NaN stays NaN
Clip(x, lo, hi) ==
    IF FLess(x, lo) THEN lo ELSE IF FLess(hi, x) THEN hi ELSE x

\* the clip bounds of line 103: 0.12 and 0.98
RATIO_FLOOR == Fin(12, 100)
RATIO_CEILING == Fin(98, 100)

(***************************************************************************)
(* Raw records and the files of each category directory                    *)
(***************************************************************************)
\* a numeric CSV cell, and one pd.to_numeric(errors='coerce') turns into NaN
Num(v) == [isNum |-> TRUE, val |-> v]
NotNum == [isNum |-> FALSE, val |-> 0]

E(st, di, dt, a, b, c) ==
    [state |-> st, district |-> di, date |-> dt,
     age_0_5 |-> a, age_5_17 |-> b, age_18_greater |-> c]
D(st, di, dt, v) == [state |-> st, district |-> di, date |-> dt, demo_age_17_ |-> v]
B(st, di, dt, v) == [state |-> st, district |-> di, date |-> dt, bio_age_17_ |-> v]

\* The files that may lie in data/raw_csvs/enrolment
EnrolCatalogue ==
    << << E(Str("Orissa"), Str("Puri"), "15-01-2025", Num(1), Num(1), Num(2)),
          E(Str("odisha "), Str(" puri"), "20-01-2025", Num(2), Num(0), Num(1)),
          E(Str("Kerala"), Str("Kochi"), "05-01-2025", Num(60), Num(0), Num(0)),
          E(Str("Odisha"), Str("Ward 12"), "03-01-2025", Num(1), Num(0), Num(0)) >>,
       << E(Str("ODISHA"), Str("PURI"), "10-02-2025", Num(3), Num(1), Num(0)),
          E(Str("Orissa"), Str("Puri"), "28-01-2025", Num(0), Num(3), Num(2)),
          E(Str("Goa"), Str("North Goa"), "unknown", Num(4), Num(1), Num(1)),
          E(Str("Andhra Pradesh"), Str("Hyderabad"), "01-01-2025", Num(1), Num(0), Num(1)) >>,
       << E(Str("State 9"), Str("Hyderabad"), "02-01-2025", Num(0), Num(1), Num(0)),
          E(NaNCell, Str("Cuttack"), "03-01-2025", Num(1), Num(1), Num(1)),
          E(Str("Atlantis"), Str("Puri"), "04-01-2025", Num(1), Num(0), Num(0)),
          E(Str("Goa"), Str("South Goa"), "04-01-2025", Num(0), Num(0), Num(-1)),
          E(Str("Kerala"), Str("Idukki"), "04-01-2025", NotNum, Num(0), Num(0)),
          E(Str("Bihar"), Str("Patna"), "04-01-2025", Num(2), Num(1), Num(-2)) >> >>

\* The files that may lie in data/raw_csvs/demographic
DemoCatalogue ==
    << << D(Str("Orissa"), Str("Puri"), "11-01-2025", 5),
          D(Str("Andhra Pradesh"), Str("Hyderabad"), "12-01-2025", 4) >>,
       << D(Str("ODISHA"), Str("Puri"), "11-02-2025", 7),
          D(Str("Telangana"), Str("Hyderabad"), "12-01-2025", 2),
          D(Str("Goa"), Str("Panaji"), "13-01-2025", 3) >> >>

\* The files that may lie in data/raw_csvs/biometric
BioCatalogue ==
    << << B(Str("Odisha"), Str("Puri"), "11-01-2025", 2),
          B(Str("Karnataka"), Str("Hyderabad"), "12-01-2025", 1) >>,
       << B(Str("Kerala"), Str("Kochi"), "11-01-2025", 3),
          B(Str("Odisha"), Str("Puri"), "21-01-2025", 4) >> >>

\* Bound: the number of files glob finds in one category directory.
MaxFiles == 2

\* glob.glob: any list of distinct files of the directory, in any order
FileLists(catalogue) ==
    { s \in UNION { [1..n -> DOMAIN catalogue] : n \in 0..MaxFiles } :
        \A i, j \in DOMAIN s : i # j => s[i] # s[j] }

RECURSIVE Concat(_, _)
\* pd.concat([pd.read_csv(f) for f in files], ignore_index=True)
Concat(catalogue, files) ==
    IF files = <<>> THEN <<>>
    ELSE catalogue[Head(files)] \o Concat(catalogue, Tail(files))

\* lines 55-59; no files gives the empty DataFrame, which has no columns
load_chunked_data(catalogue, files) == Concat(catalogue, files)

(***************************************************************************)
(* main(), lines 71-78: sanitisation of one frame                          *)
(***************************************************************************)
NaT == "NaT"

\* pd.to_datetime(dayfirst=True, errors='coerce') followed by
\* .dt.to_period('M'), for dates written DD-MM-YYYY; anything else is NaT
ToPeriod(date) ==
    IF /\ Len(date) = 10
       /\ \A i \in 1..10 : IF i \in {3, 6} THEN CharAt(date, i) = "-"
                                          ELSE CharIn(CharAt(date, i), Digits)
    THEN SubSeq(date, 7, 10) \o "-" \o SubSeq(date, 4, 5)
    ELSE NaT

\* Mutant of Reassign: the override of line 75 is left out.
ReassignNone(state, district) == state

\* line 75: df.loc[df['district'].isin(TELANGANA_DISTRICTS), 'state'] = "TELANGANA"
Reassign(state, district) ==
    IF district \in TELANGANA_DISTRICTS THEN "TELANGANA" ELSE state

\* lines 73-78 on one row
SanitizeRow(r) ==
    LET st == canonicalize(r.state, TRUE)
        di == canonicalize(r.district, FALSE)
    IN  ("month_key" :> ToPeriod(r.date)) @@
        [r EXCEPT !.state = Reassign(st, di), !.district = di]

\* lines 73-78 on a frame
SanitizeFrame(df) == [i \in DOMAIN df |-> SanitizeRow(df[i])]

(***************************************************************************)
(* main(), lines 81-96: per-category aggregation                           *)
(***************************************************************************)
\* pd.to_numeric(x, errors='coerce').fillna(0)
ToNumeric(cell) == IF cell.isNum THEN cell.val ELSE 0

\* lines 81-86: the total and youth columns
WithTotals(df) ==
    [i \in DOMAIN df |->
        ("total" :> ToNumeric(df[i].age_0_5) + ToNumeric(df[i].age_5_17)
                      + ToNumeric(df[i].age_18_greater)) @@
        ("youth" :> ToNumeric(df[i].age_0_5) + ToNumeric(df[i].age_5_17)) @@
        df[i]]

\* the group keys of groupby(["state", "district", "month_key"]); groupby
\* drops the rows whose key holds NaT (dropna=True is the default)
MonthKeys(df) ==
    { <<df[i].state, df[i].district, df[i].month_key>> :
        i \in { j \in DOMAIN df : df[j].month_key # NaT } }

RECURSIVE TakeRun(_, _, _)
TakeRun(df, k, started) ==
    IF df = <<>> THEN <<>>
    ELSE IF <<Head(df).state, Head(df).district, Head(df).month_key>> = k
         THEN <<Head(df)>> \o TakeRun(Tail(df), k, TRUE)
         ELSE IF started THEN <<>> ELSE TakeRun(Tail(df), k, FALSE)

\* Mutant of GroupRows: only the first run of adjacent rows with the key is
\* taken (grouping that needs its input sorted by key).
GroupRowsAdjacent(df, k) == TakeRun(df, k, FALSE)

\* the rows of one group, in frame order
GroupRows(df, k) ==
    SelectSeq(df, LAMBDA r : <<r.state, r.district, r.month_key>> = k)

\* Mutant of SumSeq: a later row overwrites the earlier ones.
SumSeqOverwrite(vals) == IF vals = <<>> THEN 0 ELSE vals[Len(vals)]

RECURSIVE SumSeq(_)
\* the 'sum' aggregation over the rows of a group
SumSeq(vals) == IF vals = <<>> THEN 0 ELSE Head(vals) + SumSeq(Tail(vals))

\* the monthly sum of one column for one group
MonthlySum(df, k, col) ==
    LET g == GroupRows(df, k) IN SumSeq([i \in DOMAIN g |-> g[i][col]])

\* line 89
en_agg(df) ==
    { [state |-> k[1], district |-> k[2], month_key |-> k[3],
       m_total |-> MonthlySum(df, k, "total"),
       m_youth |-> MonthlySum(df, k, "youth")] : k \in MonthKeys(df) }

\* lines 92 and 95
vol_agg(df, col) ==
    { [state |-> k[1], district |-> k[2], month_key |-> k[3],
       m_vol |-> MonthlySum(df, k, col)] : k \in MonthKeys(df) }

\* the group keys of groupby(["state", "district"])
DistrictKeys(agg) == { <<a.state, a.district>> : a \in agg }

RECURSIVE SumCol(_, _)
SumCol(rows, col) ==
    IF rows = {} THEN 0
    ELSE LET r == CHOOSE x \in rows : TRUE
         IN  r[col] + SumCol(rows \ {r}, col)

\* the 'mean' aggregation of one column over the months of one district
MonthlyMean(agg, k, col) ==
    LET rows == { a \in agg : <<a.state, a.district>> = k }
    IN  Fin(SumCol(rows, col), Cardinality(rows))

\* line 90
EnFinal(agg) ==
    { [state |-> k[1], district |-> k[2],
       total_enrolment |-> MonthlyMean(agg, k, "m_total"),
       youth_count |-> MonthlyMean(agg, k, "m_youth")] : k \in DistrictKeys(agg) }

\* line 93
DeFinal(agg) ==
    { [state |-> k[1], district |-> k[2],
       demo_vol |-> MonthlyMean(agg, k, "m_vol")] : k \in DistrictKeys(agg) }

\* line 96
BioFinal(agg) ==
    { [state |-> k[1], district |-> k[2],
       bio_vol |-> MonthlyMean(agg, k, "m_vol")] : k \in DistrictKeys(agg) }

(***************************************************************************)
(* main(), lines 98-104: merge, filter, derived columns                    *)
(***************************************************************************)
\* the value a left merge followed by fillna(0) gives row e for a column of
\* the right frame (whose keys are unique, being group keys)
Joined(right, e, col) ==
    LET m == { r \in right : r.state = e.state /\ r.district = e.district }
    IN  IF m = {} THEN Fin(0, 1) ELSE (CHOOSE r \in m : TRUE)[col]

\* Mutant of MergeStreams: inner joins instead of left joins.
MergeStreamsInner(en, de, bi) ==
    { [state |-> e.state, district |-> e.district,
       total_enrolment |-> e.total_enrolment, youth_count |-> e.youth_count,
       demo_vol |-> Joined(de, e, "demo_vol"),
       bio_vol |-> Joined(bi, e, "bio_vol")] :
         e \in { x \in en : /\ \E r \in de : r.state = x.state /\ r.district = x.district
                            /\ \E r \in bi : r.state = x.state /\ r.district = x.district } }

\* line 99
MergeStreams(en, de, bi) ==
    { [state |-> e.state, district |-> e.district,
       total_enrolment |-> e.total_enrolment, youth_count |-> e.youth_count,
       demo_vol |-> Joined(de, e, "demo_vol"),
       bio_vol |-> Joined(bi, e, "bio_vol")] : e \in en }

\* Mutant of EntityFilter: the filter of line 100 is left out.
EntityFilterNone(rows) == rows

\* line 100
EntityFilter(rows) == { r \in rows : r.state \in OfficialSet }

\* lines 103-106
Derived(rows) ==
    { [State |-> r.state, District |-> r.district,
       total_enrolment |-> r.total_enrolment, youth_count |-> r.youth_count,
       demo_vol |-> r.demo_vol, bio_vol |-> r.bio_vol,
       ratio |-> Clip(FDiv(r.youth_count, FAdd(r.total_enrolment, Fin(1, 1))),
                      RATIO_FLOOR, RATIO_CEILING),
       mobile_update_volume |-> FAdd(r.demo_vol, r.bio_vol)] : r \in rows }

\* lines 71-106 as a function of the three loaded frames
FinalFrame(rawE, rawD, rawB) ==
    Derived(EntityFilter(MergeStreams(
        EnFinal(en_agg(WithTotals(SanitizeFrame(rawE)))),
        DeFinal(vol_agg(SanitizeFrame(rawD), "demo_age_17_")),
        BioFinal(vol_agg(SanitizeFrame(rawB), "bio_age_17_")))))

(***************************************************************************)
(* The snapshot file and its reader                                        *)
(***************************************************************************)
\* OUTPUT_PATH does not exist
Absent == [st |-> "absent", rows |-> {}, flushed |-> 0]

\* OUTPUT_PATH holds the whole JSON document of a frame
Complete(rows) == [st |-> "complete", rows |-> rows, flushed |-> Cardinality(rows)]

\* OUTPUT_PATH was opened with mode "w" for a frame and holds the text of its
\* first n records only: not a JSON document
Partial(rows, n) == [st |-> "partial", rows |-> rows, flushed |-> n]

\* The snapshot an earlier run left behind.
PriorSnapshot ==
    { [State |-> "GOA", District |-> "PANAJI",
       total_enrolment |-> Fin(10, 1), youth_count |-> Fin(4, 1),
       demo_vol |-> Fin(3, 1), bio_vol |-> Fin(0, 1),
       ratio |-> Fin(4, 11), mobile_update_volume |-> Fin(3, 1)] }

None == [ok |-> FALSE, rows |-> {}]

\* app.py lines 15-30: None when the file is missing or when anything raises
\* (json.load on a truncated document, df['State'] on a frame without columns)
load_data(d) ==
    IF d.st # "complete" \/ d.rows = {} THEN None
    ELSE [ok |-> TRUE,
          rows |-> { [r EXCEPT !.State = MapUpper(Strip(r.State)),
                               !.District = MapUpper(Strip(r.District))] : r \in d.rows }]

(***************************************************************************)
(* The pipeline run, one action per stage of main()                        *)
(***************************************************************************)
Idle == [stage |-> "idle", role |-> TRUE, input |-> NaNCell, out |-> "", again |-> ""]

Init ==
    /\ pc = "start"
    /\ enrolFiles = <<>> /\ demoFiles = <<>> /\ bioFiles = <<>>
    /\ df_enrol = <<>> /\ df_demo = <<>> /\ df_bio = <<>>
    /\ en_final = {} /\ de_final = {} /\ bio_final = {}
    /\ final_df = {}
    /\ disk \in {Absent, Complete(PriorSnapshot)}
    /\ view = None
    /\ probe = Idle

\* lines 63-69: the three loads and the early return
Load ==
    /\ pc = "start"
    /\ \E ef \in FileLists(EnrolCatalogue), df \in FileLists(DemoCatalogue),
          bf \in FileLists(BioCatalogue) :
         /\ enrolFiles' = ef /\ demoFiles' = df /\ bioFiles' = bf
         /\ df_enrol' = load_chunked_data(EnrolCatalogue, ef)
         /\ df_demo' = load_chunked_data(DemoCatalogue, df)
         /\ df_bio' = load_chunked_data(BioCatalogue, bf)
         /\ pc' = IF ef = <<>> \/ df = <<>> THEN "returned" ELSE "loaded"
    /\ UNCHANGED <<en_final, de_final, bio_final, final_df, disk, view, probe>>

\* lines 71-78: the loop over [df_enrol, df_demo, df_bio]; df['state'] raises
\* KeyError on the column-less frame load_chunked_data returns for no files
Sanitize ==
    /\ pc = "loaded"
    /\ df_enrol' = SanitizeFrame(df_enrol)
    /\ df_demo' = SanitizeFrame(df_demo)
    /\ IF bioFiles = <<>>
       THEN pc' = "raised" /\ UNCHANGED df_bio
       ELSE pc' = "sanitized" /\ df_bio' = SanitizeFrame(df_bio)
    /\ UNCHANGED <<enrolFiles, demoFiles, bioFiles, en_final, de_final, bio_final,
                   final_df, disk, view, probe>>

\* lines 81-96
Aggregate ==
    /\ pc = "sanitized"
    /\ df_enrol' = WithTotals(df_enrol)
    /\ en_final' = EnFinal(en_agg(df_enrol'))
    /\ de_final' = DeFinal(vol_agg(df_demo, "demo_age_17_"))
    /\ bio_final' = BioFinal(vol_agg(df_bio, "bio_age_17_"))
    /\ pc' = "aggregated"
    /\ UNCHANGED <<enrolFiles, demoFiles, bioFiles, df_demo, df_bio, final_df,
                   disk, view, probe>>

\* lines 98-106
Merge ==
    /\ pc = "aggregated"
    /\ final_df' = Derived(EntityFilter(MergeStreams(en_final, de_final, bio_final)))
    /\ pc' = "merged"
    /\ UNCHANGED <<enrolFiles, demoFiles, bioFiles, df_enrol, df_demo, df_bio,
                   en_final, de_final, bio_final, disk, view, probe>>

\* line 107, to_json: the path is opened with mode "w", which truncates it
OpenSnapshot ==
    /\ pc = "merged"
    /\ disk' = Partial(final_df, 0)
    /\ pc' = "writing"
    /\ UNCHANGED <<enrolFiles, demoFiles, bioFiles, df_enrol, df_demo, df_bio,
                   en_final, de_final, bio_final, final_df, view, probe>>

\* line 107: the text of one more record reaches the file
WriteChunk ==
    /\ pc = "writing"
    /\ disk.flushed < Cardinality(final_df)
    /\ disk' = Partial(final_df, disk.flushed + 1)
    /\ UNCHANGED <<pc, enrolFiles, demoFiles, bioFiles, df_enrol, df_demo, df_bio,
                   en_final, de_final, bio_final, final_df, view, probe>>

\* line 107: the rest of the document is written and the file closed
CloseSnapshot ==
    /\ pc = "writing"
    /\ disk.flushed = Cardinality(final_df)
    /\ disk' = Complete(final_df)
    /\ pc' = "done"
    /\ UNCHANGED <<enrolFiles, demoFiles, bioFiles, df_enrol, df_demo, df_bio,
                   en_final, de_final, bio_final, final_df, view, probe>>

\* line 107: the write raises OSError; nothing catches it and nothing restores
\* the file
WriteFail ==
    /\ pc = "writing"
    /\ pc' = "write_failed"
    /\ UNCHANGED <<enrolFiles, demoFiles, bioFiles, df_enrol, df_demo, df_bio,
                   en_final, de_final, bio_final, final_df, disk, view, probe>>

\* app.py: a request handler reads the snapshot, at any moment of the run
ApiLoad ==
    /\ pc \in {"start", "loaded", "sanitized", "aggregated", "merged", "writing",
               "done", "returned", "raised", "write_failed"}
    /\ view' = load_data(disk)
    /\ UNCHANGED <<pc, enrolFiles, demoFiles, bioFiles, df_enrol, df_demo, df_bio,
                   en_final, de_final, bio_final, final_df, disk, probe>>

Next ==
    \/ Load
    \/ Sanitize
    \/ Aggregate
    \/ Merge
    \/ OpenSnapshot
    \/ WriteChunk
    \/ CloseSnapshot
    \/ WriteFail
    \/ ApiLoad

Spec == Init /\ [][Next]_vars

(***************************************************************************)
(* canonicalize applied to probe inputs, and applied again to its result   *)
(***************************************************************************)
ProbeSeeds == OfficialSet \cup DOMAIN PERMUTATION_MAP \cup {"Atlantis", "Nagar", ""}

\* each seed as it is, in lower case with surrounding blanks, with noise
\* characters, wrapped in extra words, with "AND" written "&", with a digit
ProbeInputs ==
    UNION { { Str(x), Str("  " \o MapLower(x) \o " "), Str(x \o "."),
              Str("THE " \o x), Str(x \o " 9") } : x \in ProbeSeeds }
      \cup { NaNCell, Str("Jammu & Kashmir"), Str("Andaman & Nicobar Islands") }

InitCanon ==
    /\ pc = "canon"
    /\ enrolFiles = <<>> /\ demoFiles = <<>> /\ bioFiles = <<>>
    /\ df_enrol = <<>> /\ df_demo = <<>> /\ df_bio = <<>>
    /\ en_final = {} /\ de_final = {} /\ bio_final = {}
    /\ final_df = {}
    /\ disk = Absent
    /\ view = None
    /\ probe = Idle

Pick ==
    /\ pc = "canon" /\ probe.stage = "idle"
    /\ \E x \in ProbeInputs, r \in BOOLEAN :
         probe' = [probe EXCEPT !.stage = "picked", !.input = x, !.role = r]
    /\ UNCHANGED <<pc, enrolFiles, demoFiles, bioFiles, df_enrol, df_demo, df_bio,
                   en_final, de_final, bio_final, final_df, disk, view>>

Canon ==
    /\ pc = "canon" /\ probe.stage = "picked"
    /\ probe' = [probe EXCEPT !.stage = "once",
                              !.out = canonicalize(probe.input, probe.role)]
    /\ UNCHANGED <<pc, enrolFiles, demoFiles, bioFiles, df_enrol, df_demo, df_bio,
                   en_final, de_final, bio_final, final_df, disk, view>>

Recanon ==
    /\ pc = "canon" /\ probe.stage = "once"
    /\ probe' = [probe EXCEPT !.stage = "twice",
                              !.again = canonicalize(Str(probe.out), probe.role)]
    /\ UNCHANGED <<pc, enrolFiles, demoFiles, bioFiles, df_enrol, df_demo, df_bio,
                   en_final, de_final, bio_final, final_df, disk, view>>

NextCanon ==
    \/ Pick
    \/ Canon
    \/ Recanon

SpecCanon == InitCanon /\ [][NextCanon]_vars

(***************************************************************************)
(* Properties                                                              *)
(***************************************************************************)
\* the run has computed its final frame
Published == pc \in {"merged", "writing", "done", "write_failed"}

\* the frames as loaded, before sanitisation
RawEnrol == Concat(EnrolCatalogue, enrolFiles)
RawDemo == Concat(DemoCatalogue, demoFiles)
RawBio == Concat(BioCatalogue, bioFiles)

Zero == Fin(0, 1)

Range(f) == { f[i] : i \in DOMAIN f }

\* the rows of a sanitised frame that carry a (state, district) key
KeyRows(df, st, di) == { i \in DOMAIN df : df[i].state = st /\ df[i].district = di }

RECURSIVE SumIdx(_, _, _)
SumIdx(df, idx, col) ==
    IF idx = {} THEN 0
    ELSE LET i == CHOOSE x \in idx : TRUE
         IN  df[i][col] + SumIdx(df, idx \ {i}, col)

\* the plain sum of a column over rows idx of a frame
PlainSum(df, idx, col) == Fin(SumIdx(df, idx, col), 1)

\* the sum of a column over the dated rows among idx, divided by the number
\* of distinct months they fall in; zero when none is dated
MeanOverMonths(df, idx, col) ==
    LET dated == { i \in idx : df[i].month_key # NaT }
        months == { df[i].month_key : i \in dated }
    IN  IF dated = {} THEN Zero
        ELSE Fin(SumIdx(df, dated, col), Cardinality(months))

\* C1: after a completed run every row of the final frame, and every row of
\* the snapshot on disk, has a State that is one of the 36 OFFICIAL_ENTITIES.
C1_RegionsOfficial ==
    /\ Published => \A r \in final_df : r.State \in OfficialSet
    /\ disk.st = "complete" => \A r \in disk.rows : r.State \in OfficialSet

\* a run has written its snapshot although its enrolment input held a rejected
\* region (REMOVE_ME) and a cleaned but unmatched one
C1_Witness ==
    /\ pc = "done" /\ disk = Complete(final_df) /\ final_df # {}
    /\ \E i \in DOMAIN df_enrol : df_enrol[i].state = REMOVE_ME
    /\ \E i \in DOMAIN df_enrol : df_enrol[i].state = "ATLANTIS"

\* two region texts that differ only by alias, case or surrounding blanks
SameRegionText(a, b) ==
    LET norm(t) == LET u == Strip(MapUpper(t))
                   IN  IF u \in DOMAIN PERMUTATION_MAP THEN PERMUTATION_MAP[u] ELSE u
    IN  norm(a) = norm(b)

Malformed(cell) == ~cell.isStr \/ HasDigit(cell.text)

WellFormed(df) ==
    SelectSeq(df, LAMBDA r : ~Malformed(r.state) /\ ~Malformed(r.district))

\* C3: a record whose region or district text is malformed becomes REMOVE_ME
\* and contributes to no row: the final frame is the one the well-formed
\* records alone give.
C3_MalformedDropped ==
    /\ \A i \in DOMAIN RawEnrol :
         pc \notin {"start", "returned", "loaded"} =>
           /\ Malformed(RawEnrol[i].state) /\ df_enrol[i].district \notin TELANGANA_DISTRICTS
                => df_enrol[i].state = REMOVE_ME
           /\ Malformed(RawEnrol[i].district) => df_enrol[i].district = REMOVE_ME
    /\ Published =>
         final_df = FinalFrame(WellFormed(RawEnrol), WellFormed(RawDemo), WellFormed(RawBio))

\* exactly one category directory holds no files
OneCategoryMissing ==
    Cardinality({ c \in {"enrolment", "demographic", "biometric"} :
                    CASE c = "enrolment" -> enrolFiles = <<>>
                      [] c = "demographic" -> demoFiles = <<>>
                      [] c = "biometric" -> bioFiles = <<>> }) = 1

\* C4: with one category missing the load gives an empty frame, the run
\* neither returns early nor raises, and the snapshot it writes holds zero for
\* the metric of the missing category.
C4_MissingCategoryTolerated ==
    (pc # "start" /\ OneCategoryMissing) =>
      /\ enrolFiles = <<>> => df_enrol = <<>>
      /\ bioFiles = <<>> => df_bio = <<>>
      /\ pc \notin {"returned", "raised"}
      /\ pc = "done" =>
           /\ disk = Complete(final_df)
           /\ demoFiles = <<>> => \A r \in final_df : r.demo_vol = Zero
           /\ bioFiles = <<>> => \A r \in final_df : r.bio_vol = Zero

\* C5: the snapshot path holds, at every moment, a whole document: the prior
\* snapshot (or no file, when there was none) or the new one.
C5_AllOrNothing ==
    /\ disk \in {Absent, Complete(PriorSnapshot), Complete(final_df)}
    /\ pc = "write_failed" => disk \in {Absent, Complete(PriorSnapshot)}

\* C6: no row of any grouped frame, nor of the final frame, pairs an override
\* district with a region other than TELANGANA, and the TELANGANA row of an
\* override district carries the activity of every record of that district,
\* whatever region it was coded with.
C6_ReassignedBeforeGrouping ==
    /\ pc \in {"aggregated", "merged", "writing", "done", "write_failed"} =>
         /\ \A r \in en_final : r.district \in TELANGANA_DISTRICTS => r.state = "TELANGANA"
         /\ \A r \in de_final : r.district \in TELANGANA_DISTRICTS => r.state = "TELANGANA"
         /\ \A r \in bio_final : r.district \in TELANGANA_DISTRICTS => r.state = "TELANGANA"
    /\ Published =>
         \A r \in final_df :
           r.District \in TELANGANA_DISTRICTS =>
             /\ r.State = "TELANGANA"
             /\ r.total_enrolment =
                  MeanOverMonths(df_enrol, { i \in DOMAIN df_enrol :
                                               df_enrol[i].district = r.District }, "total")
             /\ r.demo_vol =
                  MeanOverMonths(df_demo, { i \in DOMAIN df_demo :
                                              df_demo[i].district = r.District }, "demo_age_17_")
             /\ r.bio_vol =
                  MeanOverMonths(df_bio, { i \in DOMAIN df_bio :
                                             df_bio[i].district = r.District }, "bio_age_17_")
    /\ Published =>
         \A i \in DOMAIN RawEnrol :
           ( /\ canonicalize(RawEnrol[i].district, FALSE) \in TELANGANA_DISTRICTS
             /\ ToPeriod(RawEnrol[i].date) # NaT )
           => \E r \in final_df : r.State = "TELANGANA"
                                  /\ r.District = canonicalize(RawEnrol[i].district, FALSE)

\* HYDERABAD records coded "Andhra Pradesh" (enrolment, demographic) and
\* "Karnataka" (biometric) have been counted under TELANGANA
C6_Witness ==
    /\ pc = "done"
    /\ \E i \in DOMAIN RawEnrol :
         RawEnrol[i].state = Str("Andhra Pradesh") /\ RawEnrol[i].district = Str("Hyderabad")
    /\ \E i \in DOMAIN RawBio :
         RawBio[i].state = Str("Karnataka") /\ RawBio[i].district = Str("Hyderabad")
    /\ \E r \in final_df :
         /\ r.State = "TELANGANA" /\ r.District = "HYDERABAD"
         /\ r.total_enrolment = Fin(3, 1) /\ r.bio_vol = Fin(1, 1)

C8_RatioClamped ==
    /\ FLeq(RATIO_CEILING, Fin(1, 1))
    /\ Published =>
         \A r \in final_df : FLeq(Zero, r.ratio) /\ FLeq(r.ratio, RATIO_CEILING)

\* every order of a list of files
Perms(files) ==
    { p \in [DOMAIN files -> Range(files)] : \A i, j \in DOMAIN p : i # j => p[i] # p[j] }

C10_Idempotent ==
    (probe.role /\ probe.stage \in {"once", "twice"}) =>
      /\ (probe.input.isStr /\ probe.input.text \in OfficialSet)
            => probe.out = probe.input.text
      /\ (probe.stage = "twice" /\ probe.out \in OfficialSet)
            => probe.again = probe.out

\* an alias in lower case with blanks resolved to ODISHA, and ODISHA resolved
\* to itself
C10_Witness ==
    /\ probe.stage = "twice" /\ probe.role
    /\ probe.input = Str("  orissa ")
    /\ probe.out = "ODISHA" /\ probe.again = "ODISHA"

====
